---- MODULE Spec2Model ----
(***************************************************************************)
(* The recipe REST backend: the recipe, tag and ingredient viewsets        *)
(* (app/recipe/views.py) and the recipe serializer with its nested tag     *)
(* resolution (app/recipe/serializers.py), acting on the database tables.  *)
(*                                                                         *)
(* A handler is an operator from the database and the request to an        *)
(* outcome [db, status, data]: the database it leaves, the status code     *)
(* and the ids of the records in the response body.  The action of a       *)
(* handler commits the outcome's database.                                 *)
(* Requests run one at a time, each to completion; every ORM statement     *)
(* commits on its own (no transaction wraps a request), so a handler that  *)
(* raises half way leaves behind what it had written.                      *)
(*                                                                         *)
(* Names are numbers standing for strings in collation order; scalar       *)
(* field values are numbers standing for the field's values.               *)
(***************************************************************************)
EXTENDS Integers, Sequences, FiniteSets, TLC

\* ------------------------------------------------------------------ bounds
\* Ids the recipe and tag tables hand out, and requests that change the
\* database, in one run of the model.
MaxRecipes == 2
MaxTags == 2
MaxWrites == 3
\* The longest email create_user or the user API is given.
MaxEmailLen == 3
\* Database checks of wait_for_db that fail, in one run of the command.
MaxChecks == 5

Users == {1, 2}
\* The request of a client that sent no token.
Anon == 0
Names == {1, 2}

ScalarFields == {"title", "time_minutes", "price", "link", "description"}

\* The characters of an email or a password: a lower-case letter, an
\* upper-case letter, the at sign.
Chars == {"a", "A", "@"}

VARIABLES recipes, tags, ingredients, recipe_tags, recipe_ingredients,
          next_recipe_id, next_tag_id, writes,
          users, tokens, next_user_id,
          requests,
          wpc, db_up, db_available, results, stdout, slept

vars == <<recipes, tags, ingredients, recipe_tags, recipe_ingredients,
          next_recipe_id, next_tag_id, writes,
          users, tokens, next_user_id,
          requests,
          wpc, db_up, db_available, results, stdout, slept>>

\* The wait_for_db command: the statement it is at, its db_up flag, what it
\* has written, the outcome of each check it made and the seconds it slept;
\* and whether the database server accepts connections.
waitVars == <<wpc, db_up, db_available, results, stdout, slept>>

\* The database as one value: the tables, the two many-to-many link tables
\* (sets of <<recipe id, item id>>), the users that hold a token, and the
\* auto-increment counters.
DB ==
    [recipes |-> recipes, tags |-> tags, ingredients |-> ingredients,
     recipe_tags |-> recipe_tags, recipe_ingredients |-> recipe_ingredients,
     next_recipe_id |-> next_recipe_id, next_tag_id |-> next_tag_id,
     users |-> users, tokens |-> tokens, next_user_id |-> next_user_id]

\* set_password: what the user table stores for a password.
MakePassword(password) == [hash |-> password]

\* check_password
CheckPassword(password, stored) == stored = MakePassword(password)

\* The two users the recipe tests create: "test@email.com", "other@email.com".
TestUsers ==
    <<[email |-> <<"a", "@", "a">>, name |-> 1,
       password |-> MakePassword(<<"a", "a", "a", "a", "a">>)],
      [email |-> <<"A", "@", "a">>, name |-> 1,
       password |-> MakePassword(<<"a", "a", "a", "a", "a">>)]>>

\* No user and no record.
NoUsersDB ==
    [recipes |-> <<>>, tags |-> <<>>, ingredients |-> <<>>,
     recipe_tags |-> {}, recipe_ingredients |-> {},
     next_recipe_id |-> 1, next_tag_id |-> 1,
     users |-> <<>>, tokens |-> {}, next_user_id |-> 1]

\* The two test users and no recipe, tag or ingredient.
EmptyDB == [NoUsersDB EXCEPT !.users = TestUsers, !.next_user_id = 3]

\* The scalar columns of a recipe row as the tests' TEST_RECIPE sets them.
TestRecipe(user) ==
    [user |-> user, image |-> 0, title |-> 1, time_minutes |-> 1, price |-> 1,
     link |-> 1, description |-> 1]

\* The database the ingredient tests build through the ORM: two recipes of
\* user 1 that share one ingredient, an ingredient of user 1 on no recipe, and
\* an ingredient of user 2. The API itself offers no way to create an
\* ingredient or to attach one.
FixtureDB ==
    [EmptyDB EXCEPT
       !.recipes = <<TestRecipe(1), TestRecipe(1)>>,
       !.ingredients = <<[user |-> 1, name |-> 2], [user |-> 1, name |-> 1],
                         [user |-> 2, name |-> 1]>>,
       !.recipe_ingredients = {<<1, 1>>, <<2, 1>>},
       !.next_recipe_id = 3]

\* ------------------------------------------------------------ ORM helpers
Without(f, id) == [i \in DOMAIN f \ {id} |-> f[i]]

Outcome(db, status, data) == [db |-> db, status |-> status, data |-> data]

\* The table and the link table of a BaseRecipeViewSet subclass.
Items(db, kind) == IF kind = "tag" THEN db.tags ELSE db.ingredients
Links(db, kind) == IF kind = "tag" THEN db.recipe_tags ELSE db.recipe_ingredients

TagsOf(db, rid) == {l[2] : l \in {k \in db.recipe_tags : k[1] = rid}}
IngredientsOf(db, rid) == {l[2] : l \in {k \in db.recipe_ingredients : k[1] = rid}}

\* Tag.objects.filter(name=n): the lookup of a get_or_create without its
\* user=auth_user.
TagsNamedAnyUser(db, u, n) == {t \in DOMAIN db.tags : db.tags[t].name = n}

\* Tag.objects.filter(user=u, name=n)
TagsNamed(db, u, n) == {t \in DOMAIN db.tags : db.tags[t].user = u /\ db.tags[t].name = n}

RECURSIVE Repeat(_, _)
Repeat(x, n) == IF n = 0 THEN <<>> ELSE <<x>> \o Repeat(x, n - 1)

Range(s) == {s[i] : i \in DOMAIN s}

RECURSIVE SeqsOver(_, _)
SeqsOver(S, n) ==
    IF n = 0 THEN {<<>>}
    ELSE LET shorter == SeqsOver(S, n - 1)
         IN  shorter \cup {Append(s, x) : s \in {t \in shorter : Len(t) = n - 1}, x \in S}

Max(S) == CHOOSE x \in S : \A y \in S : y <= x

RECURSIVE Perms(_)
Perms(S) ==
    IF S = {} THEN {<<>>}
    ELSE UNION {{<<x>> \o p : p \in Perms(S \ {x})} : x \in S}

\* ------------------------------------------------------------- querysets
\* A queryset is held as its rows: a function from the id of a record to the
\* number of rows the query's joins produce for it (0: filtered out).

\* A queryset without .distinct(): the joined rows as they are.
DistinctMissing(rows) == rows

\* .distinct(): one row per record.
Distinct(rows) == [i \in DOMAIN rows |-> IF rows[i] > 0 THEN 1 ELSE 0]

Min(S) == CHOOSE x \in S : \A y \in S : x <= y

\* .order_by('id'): lowest id first.
RECURSIVE OrderByIdAsc(_, _)
OrderByIdAsc(rows, ids) ==
    IF ids = {} THEN <<>>
    ELSE LET m == Min(ids)
         IN  Repeat(m, rows[m]) \o OrderByIdAsc(rows, ids \ {m})

\* .order_by('-id'): the rows as a sequence of ids, highest id first.
RECURSIVE OrderByIdDesc(_, _)
OrderByIdDesc(rows, ids) ==
    IF ids = {} THEN <<>>
    ELSE LET m == Max(ids)
         IN  Repeat(m, rows[m]) \o OrderByIdDesc(rows, ids \ {m})

\* .order_by('name'): lowest name first.
RECURSIVE OrderByNameAsc(_, _, _)
OrderByNameAsc(items, rows, names) ==
    IF names = {} THEN {<<>>}
    ELSE LET n == Min(names)
             group == {i \in DOMAIN rows : rows[i] > 0 /\ items[i].name = n}
             Flat(p) == [k \in 1..Len(p) |-> Repeat(p[k], rows[p[k]])]
             RECURSIVE Concat(_)
             Concat(ss) == IF ss = <<>> THEN <<>> ELSE Head(ss) \o Concat(Tail(ss))
         IN  {Concat(Flat(p)) \o rest :
                 p \in Perms(group), rest \in OrderByNameAsc(items, rows, names \ {n})}

\* .order_by('-name'): every sequence the database may return, highest name
\* first; the order among records of one name is the database's choice.
RECURSIVE OrderByNameDesc(_, _, _)
OrderByNameDesc(items, rows, names) ==
    IF names = {} THEN {<<>>}
    ELSE LET n == Max(names)
             group == {i \in DOMAIN rows : rows[i] > 0 /\ items[i].name = n}
             Flat(p) == [k \in 1..Len(p) |-> Repeat(p[k], rows[p[k]])]
             RECURSIVE Concat(_)
             Concat(ss) == IF ss = <<>> THEN <<>> ELSE Head(ss) \o Concat(Tail(ss))
         IN  {Concat(Flat(p)) \o rest :
                 p \in Perms(group), rest \in OrderByNameDesc(items, rows, names \ {n})}

\* A query parameter is <<>> when the request does not carry it and <<s>> when
\* it carries the string s; a string is the sequence of its characters.
Digits == <<"0", "1", "2", "3", "4", "5", "6", "7", "8", "9">>
DigitChars == {Digits[i] : i \in DOMAIN Digits}
IsDigit(c) == c \in DigitChars
DigitValue(c) == (CHOOSE i \in DOMAIN Digits : Digits[i] = c) - 1

\* str(n) of a natural number, as the test client writes a parameter's value.
RECURSIVE Str(_)
Str(n) ==
    IF n < Len(Digits) THEN <<Digits[n + 1]>>
    ELSE Str(n \div Len(Digits)) \o <<Digits[(n % Len(Digits)) + 1]>>

\* qs.split(','): the pieces between the commas, empty ones included.
RECURSIVE Split(_)
Split(qs) ==
    LET commas == {i \in DOMAIN qs : qs[i] = ","}
    IN  IF commas = {} THEN <<qs>>
        ELSE LET k == Min(commas)
             IN  <<SubSeq(qs, 1, k - 1)>> \o Split(SubSeq(qs, k + 1, Len(qs)))

\* int(s) raises ValueError on the empty string and on any character that is
\* no digit (the strings of the model hold no sign, blank or underscore).
IntRaises(s) == s = <<>> \/ \E i \in DOMAIN s : ~IsDigit(s[i])

\* int(s) of a string of digits.
RECURSIVE IntOf(_)
IntOf(s) ==
    IF s = <<>> THEN 0
    ELSE IntOf(SubSeq(s, 1, Len(s) - 1)) * Len(Digits) + DigitValue(s[Len(s)])

\* `if tags:` / `if ingredients:`: the parameter is there and is not empty.
Given(param) == param # <<>> /\ param[1] # <<>>

\* RecipeViewSet._params_to_ints: int() of every piece of the string; the
\* ids it lists, or raised when a piece is no integer.
ParamsToInts(qs) ==
    LET pieces == Split(qs)
        raised == \E i \in DOMAIN pieces : IntRaises(pieces[i])
    IN  [raised |-> raised,
         ids |-> IF raised THEN {} ELSE {IntOf(pieces[i]) : i \in DOMAIN pieces}]

\* The filters of RecipeViewSet.get_queryset raise ValueError.
RecipeQuerysetRaises(tagsParam, ingredientsParam) ==
    \/ Given(tagsParam) /\ ParamsToInts(tagsParam[1]).raised
    \/ Given(ingredientsParam) /\ ParamsToInts(ingredientsParam[1]).raised

\* get_queryset without its filter(user=self.request.user).
RecipeRowsAnyOwner(db, u, tagsParam, ingredientsParam) ==
    LET tag_ids == ParamsToInts(tagsParam[1]).ids
        ingredient_ids == ParamsToInts(ingredientsParam[1]).ids
    IN  [r \in DOMAIN db.recipes |->
            (IF ~Given(tagsParam) THEN 1
             ELSE Cardinality(TagsOf(db, r) \cap tag_ids))
          * (IF ~Given(ingredientsParam) THEN 1
             ELSE Cardinality(IngredientsOf(db, r) \cap ingredient_ids))]

\* RecipeViewSet.get_queryset before ordering: the joins of the two optional
\* filters, then the owner filter.
RecipeRows(db, u, tagsParam, ingredientsParam) ==
    LET tag_ids == ParamsToInts(tagsParam[1]).ids
        ingredient_ids == ParamsToInts(ingredientsParam[1]).ids
    IN  [r \in DOMAIN db.recipes |->
            IF db.recipes[r].user # u THEN 0
            ELSE (IF ~Given(tagsParam) THEN 1
                  ELSE Cardinality(TagsOf(db, r) \cap tag_ids))
               * (IF ~Given(ingredientsParam) THEN 1
                  ELSE Cardinality(IngredientsOf(db, r) \cap ingredient_ids))]

RecipeQueryset(db, u, tagsParam, ingredientsParam) ==
    LET rows == Distinct(RecipeRows(db, u, tagsParam, ingredientsParam))
    IN  OrderByIdDesc(rows, DOMAIN rows)

\* BaseRecipeViewSet.get_queryset: int() of the assigned_only parameter
\* raises ValueError; an absent parameter is the default 0.
AssignedOnlyRaises(assignedParam) ==
    assignedParam # <<>> /\ IntRaises(assignedParam[1])

\* bool(int(query_params.get('assigned_only', 0)))
AssignedOnly(assignedParam) ==
    (IF assignedParam = <<>> THEN 0 ELSE IntOf(assignedParam[1])) # 0

BaseRows(db, kind, u, assignedParam) ==
    LET items == Items(db, kind)
    IN  [i \in DOMAIN items |->
            IF items[i].user # u THEN 0
            ELSE IF AssignedOnly(assignedParam)
                 THEN Cardinality({l \in Links(db, kind) : l[2] = i})
                 ELSE 1]

BaseQuerysets(db, kind, u, assignedParam) ==
    OrderByNameDesc(Items(db, kind), Distinct(BaseRows(db, kind, u, assignedParam)), Names)

\* get_object() on a queryset that is not filtered by owner.
RecipeFoundAnyOwner(db, u, id) == id \in DOMAIN db.recipes

\* get_object(): the record of that id in the requester's queryset, or 404.
RecipeFound(db, u, id) == id \in DOMAIN db.recipes /\ db.recipes[id].user = u
ItemFound(db, kind, u, id) ==
    id \in DOMAIN Items(db, kind) /\ Items(db, kind)[id].user = u

\* ------------------------------------------------------------ serializers
\* validated_data of a serializer whose Meta.fields names "user" as well.
ValidatedDataWithUser(payload) ==
    [f \in DOMAIN payload \cap (ScalarFields \cup {"tags", "user"}) |-> payload[f]]

\* RecipeDetailSerializer.Meta.fields that a payload can write (id is
\* read-only): the keys of validated_data. Any other key of the payload
\* ("user", "ingredients") is dropped by validation.
SerializerFields == ScalarFields \cup {"tags"}

ValidatedData(payload) == [f \in DOMAIN payload \cap SerializerFields |-> payload[f]]

RecipeColumns == ScalarFields \cup {"user", "image"}

\* RecipeSerializer._get_or_create_tags: for each payload tag in turn,
\* Tag.objects.get_or_create(user=auth_user, name=...) then recipe.tags.add.
\* get_or_create raises MultipleObjectsReturned when several rows match; what
\* was written before the exception stays written.
RECURSIVE GetOrCreateTags(_, _, _, _)
GetOrCreateTags(db, auth_user, names, rid) ==
    IF names = <<>> THEN [db |-> db, raised |-> FALSE]
    ELSE LET found == TagsNamed(db, auth_user, Head(names))
         IN  IF Cardinality(found) > 1 THEN [db |-> db, raised |-> TRUE]
             ELSE LET created == found = {}
                      tag == IF created THEN db.next_tag_id ELSE CHOOSE t \in found : TRUE
                      db1 == IF created
                             THEN [db EXCEPT
                                     !.tags = [i \in DOMAIN @ \cup {tag} |->
                                                 IF i = tag
                                                 THEN [user |-> auth_user, name |-> Head(names)]
                                                 ELSE @[i]],
                                     !.next_tag_id = @ + 1]
                             ELSE db
                      db2 == [db1 EXCEPT !.recipe_tags = @ \cup {<<rid, tag>>}]
                  IN  GetOrCreateTags(db2, auth_user, Tail(names), rid)

\* RecipeSerializer.create, with user=request.user from perform_create.
SerializerCreate(db, auth_user, validated_data) ==
    LET names == IF "tags" \in DOMAIN validated_data THEN validated_data["tags"] ELSE <<>>
        rid == db.next_recipe_id
        row == [c \in RecipeColumns |->
                  IF c = "user" THEN auth_user
                  ELSE IF c = "image" THEN 0
                  ELSE validated_data[c]]
        db1 == [db EXCEPT
                  !.recipes = [i \in DOMAIN @ \cup {rid} |-> IF i = rid THEN row ELSE @[i]],
                  !.next_recipe_id = @ + 1]
    IN  GetOrCreateTags(db1, auth_user, names, rid)

\* instance.tags.all().delete() for instance.tags.clear(): the recipe's tags
\* are deleted, and with them every link row that names one of them.
ClearTagsDeleting(db, rid) ==
    [db EXCEPT !.tags = [t \in DOMAIN @ \ TagsOf(db, rid) |-> @[t]],
               !.recipe_tags = {l \in @ : l[2] \notin TagsOf(db, rid)}]

\* instance.tags.clear(): the link rows of the recipe go, the tags stay.
ClearTags(db, rid) == [db EXCEPT !.recipe_tags = {l \in @ : l[1] # rid}]

\* update() with validated_data.pop('tags', []) for pop('tags', None): a
\* payload without the key clears the tags too.
SerializerUpdateAlwaysClears(db, auth_user, rid, validated_data) ==
    LET names == IF "tags" \in DOMAIN validated_data THEN validated_data["tags"] ELSE <<>>
        cleared == ClearTags(db, rid)
        got == GetOrCreateTags(cleared, auth_user, names, rid)
        attrs == DOMAIN validated_data \ {"tags"}
        saved == [got.db EXCEPT
                    !.recipes[rid] = [c \in DOMAIN @ |->
                                        IF c \in attrs THEN validated_data[c] ELSE @[c]]]
    IN  IF got.raised THEN got ELSE [db |-> saved, raised |-> FALSE]

\* RecipeSerializer.update: tags replaced when the key is present, then every
\* remaining validated attribute set and the instance saved.
SerializerUpdate(db, auth_user, rid, validated_data) ==
    LET has_tags == "tags" \in DOMAIN validated_data
        cleared == ClearTags(db, rid)
        got == IF has_tags
               THEN GetOrCreateTags(cleared, auth_user, validated_data["tags"], rid)
               ELSE [db |-> db, raised |-> FALSE]
        attrs == DOMAIN validated_data \ {"tags"}
        saved == [got.db EXCEPT
                    !.recipes[rid] = [c \in DOMAIN @ |->
                                        IF c \in attrs THEN validated_data[c] ELSE @[c]]]
    IN  IF got.raised THEN got ELSE [db |-> saved, raised |-> FALSE]

\* --------------------------------------------------------------- viewsets
\* A viewset without permission_classes: every request is let through.
AllowAny(u) == TRUE

\* TokenAuthentication + IsAuthenticated: a request without a user is
\* answered 401 before any handler code runs.
Authenticated(u) == u # Anon

\* RecipeViewSet.list; a ValueError of get_queryset is no APIException, so
\* it is not turned into a 4xx and the request ends as a server error.
RecipeList(db, u, tagsParam, ingredientsParam) ==
    IF ~Authenticated(u) THEN Outcome(db, 401, <<>>)
    ELSE IF RecipeQuerysetRaises(tagsParam, ingredientsParam) THEN Outcome(db, 500, <<>>)
    ELSE Outcome(db, 200, RecipeQueryset(db, u, tagsParam, ingredientsParam))

\* RecipeViewSet.retrieve
RecipeRetrieve(db, u, id) ==
    IF ~Authenticated(u) THEN Outcome(db, 401, <<>>)
    ELSE IF ~RecipeFound(db, u, id) THEN Outcome(db, 404, <<>>)
    ELSE Outcome(db, 200, <<id>>)

\* perform_create that saves with the payload's user when it names one.
RecipeCreateOwnerFromPayload(db, u, payload) ==
    IF ~Authenticated(u) THEN Outcome(db, 401, <<>>)
    ELSE LET owner == IF "user" \in DOMAIN payload THEN payload["user"] ELSE u
             r == SerializerCreate(db, owner, ValidatedData(payload))
         IN  IF r.raised THEN Outcome(r.db, 500, <<>>)
             ELSE Outcome(r.db, 201, <<db.next_recipe_id>>)

\* RecipeViewSet.create (POST), through perform_create.
RecipeCreate(db, u, payload) ==
    IF ~Authenticated(u) THEN Outcome(db, 401, <<>>)
    ELSE LET r == SerializerCreate(db, u, ValidatedData(payload))
         IN  IF r.raised THEN Outcome(r.db, 500, <<>>)
             ELSE Outcome(r.db, 201, <<db.next_recipe_id>>)

\* RecipeViewSet.update / partial_update (PUT / PATCH).
RecipeUpdate(db, u, id, payload) ==
    IF ~Authenticated(u) THEN Outcome(db, 401, <<>>)
    ELSE IF ~RecipeFound(db, u, id) THEN Outcome(db, 404, <<>>)
    ELSE LET r == SerializerUpdate(db, u, id, ValidatedData(payload))
         IN  IF r.raised THEN Outcome(r.db, 500, <<>>)
             ELSE Outcome(r.db, 200, <<id>>)

\* RecipeViewSet.destroy: the recipe and its rows in both link tables go.
RecipeDestroy(db, u, id) ==
    IF ~Authenticated(u) THEN Outcome(db, 401, <<>>)
    ELSE IF ~RecipeFound(db, u, id) THEN Outcome(db, 404, <<>>)
    ELSE Outcome([db EXCEPT !.recipes = Without(@, id),
                            !.recipe_tags = {l \in @ : l[1] # id},
                            !.recipe_ingredients = {l \in @ : l[1] # id}],
                 204, <<>>)

\* RecipeViewSet.upload_image: get_object(), then get_serializer(), whose
\* get_serializer_class reads serializers.RecipeImageSerializer; the
\* serializers module defines no such class, so the lookup raises whatever
\* file the request carries.
UploadImage(db, u, id, image) ==
    IF ~Authenticated(u) THEN Outcome(db, 401, <<>>)
    ELSE IF ~RecipeFound(db, u, id) THEN Outcome(db, 404, <<>>)
    ELSE Outcome(db, 500, <<>>)

\* BaseRecipeViewSet list (ListModelMixin): the possible outcomes, one per
\* order the database may return rows of equal name in.
BaseList(db, kind, u, assignedParam) ==
    IF ~Authenticated(u) THEN {Outcome(db, 401, <<>>)}
    ELSE IF AssignedOnlyRaises(assignedParam) THEN {Outcome(db, 500, <<>>)}
    ELSE {Outcome(db, 200, q) : q \in BaseQuerysets(db, kind, u, assignedParam)}

\* BaseRecipeViewSet update / partial_update (UpdateModelMixin) with a
\* TagSerializer / IngredientSerializer payload {"name": name}.
BaseUpdate(db, kind, u, id, name) ==
    IF ~Authenticated(u) THEN Outcome(db, 401, <<>>)
    ELSE IF ~ItemFound(db, kind, u, id) THEN Outcome(db, 404, <<>>)
    ELSE Outcome(IF kind = "tag"
                 THEN [db EXCEPT !.tags[id].name = name]
                 ELSE [db EXCEPT !.ingredients[id].name = name],
                 200, <<id>>)

\* BaseRecipeViewSet destroy (DestroyModelMixin): the item and its link rows go.
BaseDestroy(db, kind, u, id) ==
    IF ~Authenticated(u) THEN Outcome(db, 401, <<>>)
    ELSE IF ~ItemFound(db, kind, u, id) THEN Outcome(db, 404, <<>>)
    ELSE Outcome(IF kind = "tag"
                 THEN [db EXCEPT !.tags = Without(@, id),
                                 !.recipe_tags = {l \in @ : l[2] # id}]
                 ELSE [db EXCEPT !.ingredients = Without(@, id),
                                 !.recipe_ingredients = {l \in @ : l[2] # id}],
                 204, <<>>)

\* ------------------------------------------------------------------ users
\* The minimum length of a password the user API accepts.
MinPasswordLength == 5

Lower(c) == IF c = "A" THEN "a" ELSE c

\* The place of the last at sign of an email, 0 when it has none.
LastAt(email) == Max({0} \cup {i \in DOMAIN email : email[i] = "@"})

\* normalize_email that lower-cases the whole address.
NormalizeEmailLowerAll(email) == [i \in 1..Len(email) |-> Lower(email[i])]

\* normalize_email: the part after the last at sign lower-cased, the rest as
\* given; an address without an at sign as given.
NormalizeEmail(email) ==
    LET k == LastAt(email)
    IN  IF k = 0 THEN email
        ELSE [i \in 1..Len(email) |-> IF i > k THEN Lower(email[i]) ELSE email[i]]

\* The user whose stored email is exactly this one, as a set (the column is
\* unique).
UsersWithEmail(db, email) == {u \in DOMAIN db.users : db.users[u].email = email}

\* The user manager's create_user(email, password, name=...): the database it
\* leaves and the exception it raised ("" for none). An empty email raises
\* ValueError before anything is stored; the unique email column refuses a
\* second row of one email.
CreateUser(db, email, password, name) ==
    IF email = <<>> THEN [db |-> db, raised |-> "ValueError"]
    ELSE LET stored == NormalizeEmail(email)
             id == db.next_user_id
         IN  IF UsersWithEmail(db, stored) # {}
             THEN [db |-> db, raised |-> "IntegrityError"]
             ELSE [db |-> [db EXCEPT
                             !.users = [i \in DOMAIN @ \cup {id} |->
                                          IF i = id
                                          THEN [email |-> stored, name |-> name,
                                                password |-> MakePassword(password)]
                                          ELSE @[i]],
                             !.next_user_id = @ + 1],
                   raised |-> ""]

\* A well-formed address: one at sign, with something on either side.
IsEmail(email) ==
    /\ Cardinality({i \in DOMAIN email : email[i] = "@"}) = 1
    /\ LastAt(email) \notin {1, Len(email)}

\* The user serializer's representation of a user: the password is write-only.
UserData(db, u) == [email |-> db.users[u].email, name |-> db.users[u].name]

\* Registration that accepts a password of any length.
UserCreateAnyPassword(db, payload) ==
    IF \/ ~IsEmail(payload.email)
       \/ UsersWithEmail(db, payload.email) # {}
    THEN Outcome(db, 400, <<>>)
    ELSE LET r == CreateUser(db, payload.email, payload.password, payload.name)
         IN  IF r.raised # "" THEN Outcome(db, 500, <<>>)
             ELSE Outcome(r.db, 201, UserData(r.db, db.next_user_id))

\* POST /user/create (open to all): the payload is validated (address, minimum
\* password length, no user of that email), then create_user stores the user.
UserCreate(db, payload) ==
    IF \/ ~IsEmail(payload.email)
       \/ Len(payload.password) < MinPasswordLength
       \/ UsersWithEmail(db, payload.email) # {}
    THEN Outcome(db, 400, <<>>)
    ELSE LET r == CreateUser(db, payload.email, payload.password, payload.name)
         IN  IF r.raised # "" THEN Outcome(db, 500, <<>>)
             ELSE Outcome(r.db, 201, UserData(r.db, db.next_user_id))

\* The token endpoint without the password check.
TokenCreateAnyPassword(db, email, password) ==
    LET found == UsersWithEmail(db, email)
    IN  IF password = <<>> \/ found = {} THEN Outcome(db, 400, <<>>)
        ELSE LET u == CHOOSE x \in found : TRUE
             IN  Outcome([db EXCEPT !.tokens = @ \cup {u}], 200, [token |-> u])

\* POST /user/token (open to all): a blank password is refused by validation;
\* authenticate() looks the user up by email and checks the password; the
\* user's token is fetched or made.
TokenCreate(db, email, password) ==
    LET found == UsersWithEmail(db, email)
    IN  IF password = <<>> \/ found = {} THEN Outcome(db, 400, <<>>)
        ELSE LET u == CHOOSE x \in found : TRUE
             IN  IF ~CheckPassword(password, db.users[u].password)
                 THEN Outcome(db, 400, <<>>)
                 ELSE Outcome([db EXCEPT !.tokens = @ \cup {u}], 200, [token |-> u])

\* GET /user/me (the profile view): answered only for an authenticated user,
\* with that user's name and email.
MeRetrieve(db, u) ==
    IF ~Authenticated(u) THEN Outcome(db, 401, <<>>)
    ELSE Outcome(db, 200, UserData(db, u))

\* A profile update that writes the payload's email as well.
MeUpdateWithEmail(db, u, payload) ==
    IF ~Authenticated(u) THEN Outcome(db, 401, <<>>)
    ELSE IF "password" \in DOMAIN payload /\ Len(payload.password) < MinPasswordLength
    THEN Outcome(db, 400, <<>>)
    ELSE LET row == db.users[u]
             new == [email |-> IF "email" \in DOMAIN payload THEN payload.email ELSE row.email,
                     name |-> IF "name" \in DOMAIN payload THEN payload.name ELSE row.name,
                     password |-> IF "password" \in DOMAIN payload
                                  THEN MakePassword(payload.password) ELSE row.password]
             db1 == [db EXCEPT !.users[u] = new]
         IN  Outcome(db1, 200, UserData(db1, u))

\* PATCH /user/me: the authenticated user's name and password are set from
\* the payload (a short password is refused); the email is not written.
MeUpdate(db, u, payload) ==
    IF ~Authenticated(u) THEN Outcome(db, 401, <<>>)
    ELSE IF "password" \in DOMAIN payload /\ Len(payload.password) < MinPasswordLength
    THEN Outcome(db, 400, <<>>)
    ELSE LET row == db.users[u]
             new == [email |-> row.email,
                     name |-> IF "name" \in DOMAIN payload THEN payload.name ELSE row.name,
                     password |-> IF "password" \in DOMAIN payload
                                  THEN MakePassword(payload.password) ELSE row.password]
             db1 == [db EXCEPT !.users[u] = new]
         IN  Outcome(db1, 200, UserData(db1, u))

\* POST /user/me: the view has no POST handler.
MePost(db, u) ==
    IF ~Authenticated(u) THEN Outcome(db, 401, <<>>)
    ELSE Outcome(db, 405, <<>>)

\* ----------------------------------------------------------------- inputs
Clients == Users \cup {Anon}
RecipeIds == 1..MaxRecipes
TagIds == 1..MaxTags
IngredientIds == DOMAIN FixtureDB.ingredients

Full(v) == [f \in ScalarFields |-> v]
With(payload, key, value) ==
    [f \in DOMAIN payload \cup {key} |-> IF f = key THEN value ELSE payload[f]]

\* The "tags" / "ingredients" value of a payload: the names of its objects.
NameLists == SeqsOver(Names, 2)

\* A payload that carries `base` and at most one of tags, ingredients, user.
Extras(base) ==
    {base}
    \cup {With(base, "tags", l) : l \in NameLists}
    \cup {With(base, "ingredients", l) : l \in {<<>>, <<1>>}}
    \cup {With(base, "user", w) : w \in Users}

\* POST and PUT payloads carry every scalar field (the tests' TEST_RECIPE); a
\* PATCH payload carries any subset.
CreatePayloads == Extras(Full(1))
PutPayloads == {Full(1)} \cup {With(Full(1), "tags", l) : l \in NameLists}
PatchPayloads == (Extras(<<>>) \ {<<>>}) \cup {[title |-> 2]}
UpdatePayloads == PutPayloads \cup PatchPayloads

\* The value of a `tags` / `ingredients` parameter that lists the ids.
RECURSIVE JoinIds(_)
JoinIds(ids) ==
    IF ids = <<>> THEN <<>>
    ELSE IF Len(ids) = 1 THEN Str(ids[1])
    ELSE Str(ids[1]) \o <<",">> \o JoinIds(Tail(ids))

\* A list's well-formed `tags` / `ingredients` parameter: absent, or up to
\* two ids.
IdParams(ids) ==
    {<<>>} \cup {<<Str(i)>> : i \in ids}
    \cup {<<JoinIds(p)>> : p \in {q \in ids \X ids : q[1] < q[2]}}
IngredientParams == {<<>>, <<JoinIds(<<1>>)>>, <<JoinIds(<<2, 3>>)>>}
AssignedParams == {<<>>, <<Str(0)>>, <<Str(1)>>}

\* Parameters a client may also send: the empty value, and values that are
\* no comma-separated integers (`1,` `a,b` `1,a`) or no integer.
EmptyParam == <<<<>>>>
MalformedIdParams ==
    {<<<<"1", ",">>>>, <<<<"a", ",", "b">>>>, <<<<"1", ",", "a">>>>}
MalformedAssignedParams == {EmptyParam, <<<<"a">>>>, <<<<"1", ",">>>>}

\* The <<tags, ingredients>> parameters of the recipe lists the clients
\* send: both well-formed, or one of them empty or malformed.
RecipeListParams ==
    (IdParams(TagIds) \X IngredientParams)
    \cup ((MalformedIdParams \cup {EmptyParam}) \X {<<>>})
    \cup ({<<>>} \X (MalformedIdParams \cup {EmptyParam}))
Kinds == {"tag", "ingredient"}

\* The file of an upload-image request: 1 is a JPEG image, 2 is text that is
\* no image. (A recipe's image column is 0 while it has none.)
Images == {1, 2}
IsImage(image) == image = 1

\* Emails as create_user or the user API may be given them: every string of
\* the characters. The requests of the model send the empty one and the
\* shortest well-formed ones (two of them differ in the domain's case only,
\* so the user table never holds more than two users).
Emails == SeqsOver(Chars, MaxEmailLen)
SentEmails == {<<>>} \cup {<<l, "@", d>> : l \in {"a", "A"}, d \in {"a", "A"}}

\* Passwords: blank, one character short of the minimum, and of the minimum
\* length, in two spellings.
Passwords ==
    {<<>>} \cup {Repeat(c, n) : c \in {"a", "A"},
                               n \in {MinPasswordLength - 1, MinPasswordLength}}

UserPayloads == [email : SentEmails, password : Passwords, name : Names]

\* PATCH /user/me payloads: a name, a password, both, or an email with both.
MePayloads ==
    [name : Names] \cup [password : Passwords] \cup [name : Names, password : Passwords]
    \cup [email : SentEmails \ {<<>>}, name : Names, password : Passwords]

\* The clients of the user API: the users there are, and one with no token.
Accounts == DOMAIN users \cup {Anon}

\* The server's workers, each handling one request at a time, and a worker
\* that has no request yet. A request in hand is [pc, user, rid, tags, names,
\* tag, success, status]: the statement it is at, the authenticated user, the
\* recipe it writes to, the names of the payload's tags, those still to
\* resolve, the tag get_or_create holds, the status of a success (201 for a
\* create, 200 for an update) and the status once answered.
Workers == {1, 2}
Idle == [pc |-> "idle"]

\* ---------------------------------------------------------------- actions
\* The outcome's database is committed. The id counters and the number of
\* requests that change the database stay within the model's bounds.
Apply(out) ==
    /\ out.db.next_recipe_id <= MaxRecipes + 1
    /\ out.db.next_tag_id <= MaxTags + 1
    /\ out.db # DB => writes < MaxWrites
    /\ recipes' = out.db.recipes
    /\ tags' = out.db.tags
    /\ ingredients' = out.db.ingredients
    /\ recipe_tags' = out.db.recipe_tags
    /\ recipe_ingredients' = out.db.recipe_ingredients
    /\ next_recipe_id' = out.db.next_recipe_id
    /\ next_tag_id' = out.db.next_tag_id
    /\ users' = out.db.users
    /\ tokens' = out.db.tokens
    /\ next_user_id' = out.db.next_user_id
    /\ UNCHANGED requests
    /\ UNCHANGED waitVars
    /\ writes' = IF out.db # DB THEN writes + 1 ELSE writes

ListRecipes ==
    \E u \in Clients, params \in RecipeListParams :
        Apply(RecipeList(DB, u, params[1], params[2]))

RetrieveRecipe ==
    \E u \in Clients, id \in RecipeIds : Apply(RecipeRetrieve(DB, u, id))

CreateRecipe ==
    \E u \in Clients, payload \in CreatePayloads : Apply(RecipeCreate(DB, u, payload))

PutRecipe ==
    \E u \in Clients, id \in RecipeIds, payload \in PutPayloads :
        Apply(RecipeUpdate(DB, u, id, payload))

PatchRecipe ==
    \E u \in Clients, id \in RecipeIds, payload \in PatchPayloads :
        Apply(RecipeUpdate(DB, u, id, payload))

DestroyRecipe ==
    \E u \in Clients, id \in RecipeIds : Apply(RecipeDestroy(DB, u, id))

UploadRecipeImage ==
    \E u \in Clients, id \in RecipeIds, image \in Images :
        Apply(UploadImage(DB, u, id, image))

ListItems ==
    \E kind \in Kinds, u \in Clients, ap \in AssignedParams \cup MalformedAssignedParams :
        \E out \in BaseList(DB, kind, u, ap) : Apply(out)

UpdateItem ==
    \E kind \in Kinds, u \in Clients, id \in TagIds \cup IngredientIds, name \in Names :
        Apply(BaseUpdate(DB, kind, u, id, name))

DestroyItem ==
    \E kind \in Kinds, u \in Clients, id \in TagIds \cup IngredientIds :
        Apply(BaseDestroy(DB, kind, u, id))

RetrieveMe ==
    \E u \in Accounts : Apply(MeRetrieve(DB, u))

\* create_user called on the manager (the tests' setup, createsuperuser).
ManagerCreateUser ==
    \E email \in SentEmails, password \in Passwords, name \in Names :
        Apply(CreateUser(DB, email, password, name))

RegisterUser ==
    \E payload \in UserPayloads : Apply(UserCreate(DB, payload))

CreateToken ==
    \E email \in SentEmails, password \in Passwords :
        Apply(TokenCreate(DB, email, password))

PatchMe ==
    \E u \in Accounts, payload \in MePayloads : Apply(MeUpdate(DB, u, payload))

PostMe ==
    \E u \in Accounts : Apply(MePost(DB, u))

InitOn(db) ==
    /\ recipes = db.recipes
    /\ tags = db.tags
    /\ ingredients = db.ingredients
    /\ recipe_tags = db.recipe_tags
    /\ recipe_ingredients = db.recipe_ingredients
    /\ next_recipe_id = db.next_recipe_id
    /\ next_tag_id = db.next_tag_id
    /\ users = db.users
    /\ tokens = db.tokens
    /\ next_user_id = db.next_user_id
    /\ requests = [w \in Workers |-> Idle]
    /\ wpc = "start"
    /\ db_up = FALSE
    /\ db_available = FALSE
    /\ results = <<>>
    /\ stdout = <<>>
    /\ slept = 0
    /\ writes = 0

\* The API on a fresh database.
Init == InitOn(EmptyDB)

\* The API on the database the tests' setup leaves.
InitFixture == InitOn(FixtureDB)

Next ==
    \/ ListRecipes
    \/ RetrieveRecipe
    \/ CreateRecipe
    \/ PutRecipe
    \/ PatchRecipe
    \/ DestroyRecipe
    \/ UploadRecipeImage
    \/ ListItems
    \/ UpdateItem
    \/ DestroyItem
    \/ RetrieveMe

Spec == Init /\ [][Next]_vars

\* ------------------------------------------------------------ wait_for_db
\* The seconds of time.sleep in the command's loop.
SleepSeconds == 1

\* The exceptions the command's loop catches.
OperationalErrors == {"Psycopg2OperationalError", "OperationalError"}

TablesKept ==
    UNCHANGED <<recipes, tags, ingredients, recipe_tags, recipe_ingredients,
                next_recipe_id, next_tag_id, writes, users, tokens, next_user_id,
                requests>>

\* A loop that is left after its first pass.
WhileConditionOnce(up) == up = FALSE /\ results = <<>>

\* while db_up is False
WhileCondition(up) == up = FALSE

\* Waiting for database... is written and db_up set to False.
WaitStart ==
    /\ wpc = "start"
    /\ stdout' = Append(stdout, "Waiting for database...")
    /\ db_up' = FALSE
    /\ wpc' = "while"
    /\ UNCHANGED <<db_available, results, slept>>
    /\ TablesKept

WaitWhile ==
    /\ wpc = "while"
    /\ wpc' = IF WhileCondition(db_up) THEN "check" ELSE "report"
    /\ UNCHANGED <<db_up, db_available, results, stdout, slept>>
    /\ TablesKept

\* self.check(databases=['default']): it returns when the database accepts
\* the connection, and db_up is set; else it raises one of the operational
\* errors, which the except clause answers with the warning.
WaitCheck ==
    /\ wpc = "check"
    /\ \/ /\ db_available
          /\ results' = Append(results, "ok")
          /\ db_up' = TRUE
          /\ wpc' = "while"
          /\ UNCHANGED stdout
       \/ /\ ~db_available
          /\ Len(results) < MaxChecks
          /\ \E e \in OperationalErrors : results' = Append(results, e)
          /\ stdout' = Append(stdout, "Database not available, waiting 1 second...")
          /\ wpc' = "sleep"
          /\ UNCHANGED db_up
    /\ UNCHANGED <<db_available, slept>>
    /\ TablesKept

\* time.sleep(1)
WaitSleep ==
    /\ wpc = "sleep"
    /\ slept' = slept + SleepSeconds
    /\ wpc' = "while"
    /\ UNCHANGED <<db_up, db_available, results, stdout>>
    /\ TablesKept

\* Database is available! is written and handle returns.
WaitReport ==
    /\ wpc = "report"
    /\ stdout' = Append(stdout, "Database is available!")
    /\ wpc' = "done"
    /\ UNCHANGED <<db_up, db_available, results, slept>>
    /\ TablesKept

\* The database server starts or stops accepting connections.
DbComesUp ==
    /\ ~db_available
    /\ db_available' = TRUE
    /\ UNCHANGED <<wpc, db_up, results, stdout, slept>>
    /\ TablesKept

DbGoesDown ==
    /\ db_available
    /\ db_available' = FALSE
    /\ UNCHANGED <<wpc, db_up, results, stdout, slept>>
    /\ TablesKept

Command == WaitStart \/ WaitWhile \/ WaitCheck \/ WaitSleep \/ WaitReport

NextWait ==
    \/ WaitStart
    \/ WaitWhile
    \/ WaitCheck
    \/ WaitSleep
    \/ WaitReport
    \/ DbComesUp
    \/ DbGoesDown

\* The command as a running process (a statement that can run does run, a
\* sleep returns), beside a database that comes and goes as it likes.
SpecWait == Init /\ [][NextWait]_vars /\ WF_vars(Command)

\* ------------------------------------------------- requests side by side
\* RecipeSerializer.create and update statement by statement, on workers that
\* run side by side: every ORM statement is one step, committed when made.
OtherTablesKept ==
    /\ UNCHANGED <<ingredients, recipe_ingredients, users, tokens, next_user_id, writes>>
    /\ UNCHANGED waitVars

\* POST: Recipe.objects.create(**validated_data) inserts the recipe row.
StartCreate(w) ==
    /\ requests[w].pc = "idle"
    /\ next_recipe_id <= MaxRecipes
    /\ \E u \in Users, names \in NameLists :
          /\ recipes' = [i \in DOMAIN recipes \cup {next_recipe_id} |->
                            IF i = next_recipe_id THEN TestRecipe(u) ELSE recipes[i]]
          /\ requests' = [requests EXCEPT ![w] =
                            [pc |-> "get", user |-> u, rid |-> next_recipe_id,
                             tags |-> names, names |-> names, tag |-> 0,
                             success |-> 201, status |-> 0]]
    /\ next_recipe_id' = next_recipe_id + 1
    /\ UNCHANGED <<tags, recipe_tags, next_tag_id>>
    /\ OtherTablesKept

\* PUT / PATCH with `tags`: get_object(), then instance.tags.clear().
StartUpdate(w) ==
    /\ requests[w].pc = "idle"
    /\ \E u \in Users, id \in DOMAIN recipes, names \in NameLists :
          /\ RecipeFound(DB, u, id)
          /\ recipe_tags' = {l \in recipe_tags : l[1] # id}
          /\ requests' = [requests EXCEPT ![w] =
                            [pc |-> "get", user |-> u, rid |-> id,
                             tags |-> names, names |-> names, tag |-> 0,
                             success |-> 200, status |-> 0]]
    /\ UNCHANGED <<recipes, tags, next_recipe_id, next_tag_id>>
    /\ OtherTablesKept

\* The loop head of _get_or_create_tags and the SELECT of get_or_create: no
\* name left ends the request; several rows raise MultipleObjectsReturned;
\* one row is the tag; no row sends get_or_create on to its INSERT.
GetTag(w) ==
    LET r == requests[w]
    IN  /\ r.pc = "get"
        /\ requests' = [requests EXCEPT ![w] =
              IF r.names = <<>> THEN [r EXCEPT !.pc = "done", !.status = r.success]
              ELSE LET found == TagsNamed(DB, r.user, Head(r.names))
                   IN  IF Cardinality(found) > 1 THEN [r EXCEPT !.pc = "done", !.status = 500]
                       ELSE IF found = {} THEN [r EXCEPT !.pc = "insert"]
                       ELSE [r EXCEPT !.pc = "add", !.tag = CHOOSE t \in found : TRUE]]
        /\ UNCHANGED <<recipes, tags, recipe_tags, next_recipe_id, next_tag_id>>
        /\ OtherTablesKept

\* The INSERT of get_or_create: the SELECT found no row when it was made.
InsertTag(w) ==
    LET r == requests[w]
    IN  /\ r.pc = "insert"
        /\ next_tag_id <= MaxTags
        /\ tags' = [i \in DOMAIN tags \cup {next_tag_id} |->
                       IF i = next_tag_id
                       THEN [user |-> r.user, name |-> Head(r.names)]
                       ELSE tags[i]]
        /\ next_tag_id' = next_tag_id + 1
        /\ requests' = [requests EXCEPT ![w] = [r EXCEPT !.pc = "add", !.tag = next_tag_id]]
        /\ UNCHANGED <<recipes, recipe_tags, next_recipe_id>>
        /\ OtherTablesKept

\* recipe.tags.add(tag_obj), then on to the next name.
AddTag(w) ==
    LET r == requests[w]
    IN  /\ r.pc = "add"
        /\ recipe_tags' = recipe_tags \cup {<<r.rid, r.tag>>}
        /\ requests' = [requests EXCEPT ![w] = [r EXCEPT !.pc = "get", !.names = Tail(@)]]
        /\ UNCHANGED <<recipes, tags, next_recipe_id, next_tag_id>>
        /\ OtherTablesKept

NextConcurrent ==
    \E w \in Workers :
        \/ StartCreate(w)
        \/ StartUpdate(w)
        \/ GetTag(w)
        \/ InsertTag(w)
        \/ AddTag(w)

\* Two workers on a database with the test users and no record.
SpecConcurrent == Init /\ [][NextConcurrent]_vars

\* The user API on a database without users.
InitUsers == InitOn(NoUsersDB)

NextUsers ==
    \/ ManagerCreateUser
    \/ RegisterUser
    \/ CreateToken
    \/ RetrieveMe
    \/ PatchMe
    \/ PostMe

SpecUsers == InitUsers /\ [][NextUsers]_vars

SpecFixture == InitFixture /\ [][Next]_vars

\* ----------------------------------------------------------------- claims
OwnedBy(table, u) == {i \in DOMAIN table : table[i].user = u}
OthersOf(table, u) == {i \in DOMAIN table : table[i].user # u}
NoDuplicates(s) == Cardinality(Range(s)) = Len(s)

\* C1: whatever the database and the filters (ids of other users' tags and
\* ingredients included), a user's recipe list holds only recipes that user
\* owns, and a detail request for another user's recipe returns no recipe.
C1_RecipesOnlyOwn ==
    \A u \in Users :
        /\ \A tp \in IdParams(TagIds), ip \in IngredientParams :
              LET out == RecipeList(DB, u, tp, ip)
              IN  Range(out.data) \subseteq OwnedBy(recipes, u)
        /\ \A id \in OthersOf(recipes, u) :
              LET out == RecipeRetrieve(DB, u, id)
              IN  out.status = 404 /\ out.data = <<>>

\* C1's case: a user with a recipe of their own lists by the id of a tag that
\* is another user's and sits on that other user's recipe.
C1_Witness ==
    \E u \in Users : \E t \in OthersOf(tags, u), r \in OthersOf(recipes, u) :
        /\ <<r, t>> \in recipe_tags
        /\ OwnedBy(recipes, u) # {}
        /\ RecipeList(DB, u, <<Str(t)>>, <<>>).data = <<>>
        /\ RecipeList(DB, u, <<>>, <<>>).data # <<>>
        /\ RecipeRetrieve(DB, u, r).status = 404

\* C2: a detail operation on a recipe, tag or ingredient of another user is
\* answered 404 and leaves the whole database as it was.
C2_OthersRecord404 ==
    \A u \in Users :
        /\ \A id \in OthersOf(recipes, u) :
              /\ RecipeRetrieve(DB, u, id) = Outcome(DB, 404, <<>>)
              /\ RecipeDestroy(DB, u, id) = Outcome(DB, 404, <<>>)
              /\ \A image \in Images : UploadImage(DB, u, id, image) = Outcome(DB, 404, <<>>)
              /\ \A payload \in UpdatePayloads :
                    RecipeUpdate(DB, u, id, payload) = Outcome(DB, 404, <<>>)
        /\ \A kind \in Kinds : \A id \in OthersOf(Items(DB, kind), u) :
              /\ BaseDestroy(DB, kind, u, id) = Outcome(DB, 404, <<>>)
              /\ \A name \in Names :
                    BaseUpdate(DB, kind, u, id, name) = Outcome(DB, 404, <<>>)

\* C2's case: a user faces a recipe with a tag on it, a tag and an ingredient,
\* all three another user's, and the delete of that recipe is refused.
C2_Witness ==
    \E u \in Users : \E r \in OthersOf(recipes, u), t \in OthersOf(tags, u) :
        /\ <<r, t>> \in recipe_tags
        /\ OwnedBy(ingredients, u) # {}
        /\ OthersOf(ingredients, u) # {}
        /\ RecipeDestroy(DB, u, r).status = 404
        /\ BaseDestroy(DB, "tag", u, t).status = 404

TagPayloads(payloads) == {p \in payloads : "tags" \in DOMAIN p}

\* The user's tags that carry one of the names.
TagsNamedIn(db, u, names) == {t \in OwnedBy(db.tags, u) : db.tags[t].name \in names}

\* C3: an update whose payload carries `tags` leaves the recipe with exactly
\* the requesting user's tags of the listed names (none for an empty list).
C3_TagsReplaced ==
    \A u \in Users : \A id \in OwnedBy(recipes, u) : \A payload \in TagPayloads(UpdatePayloads) :
        LET out == RecipeUpdate(DB, u, id, payload)
        IN  TagsOf(out.db, id) = TagsNamedIn(out.db, u, Range(payload["tags"]))

\* C4: a PATCH without `tags` leaves the recipe's tags as they were, and every
\* scalar field the payload does not name keeps its value.
C4_PatchFrame ==
    \A u \in Users : \A id \in OwnedBy(recipes, u) : \A payload \in PatchPayloads :
        LET out == RecipeUpdate(DB, u, id, payload)
        IN  /\ "tags" \notin DOMAIN payload => TagsOf(out.db, id) = TagsOf(DB, id)
            /\ \A f \in ScalarFields \ DOMAIN payload :
                  out.db.recipes[id][f] = recipes[id][f]

\* C4's case: a recipe that carries a tag is patched with a title alone; the
\* title changes, the tag and the link stay.
C4_Witness ==
    \E id \in DOMAIN recipes :
        LET out == RecipeUpdate(DB, recipes[id].user, id, [title |-> 2])
        IN  /\ TagsOf(DB, id) # {}
            /\ recipes[id].title = 1
            /\ out.status = 200
            /\ out.db.recipes[id].title = 2
            /\ out.db.recipes[id].link = recipes[id].link
            /\ TagsOf(out.db, id) = TagsOf(DB, id)

\* What resolving the payload's names for recipe rid must have done, from
\* database db to outcome out.
Resolved(db, out, u, rid, names) ==
    \A n \in Range(names) :
        LET before == TagsNamed(db, u, n)
            after == TagsNamed(out.db, u, n)
        IN  /\ before # {} => after = before
            /\ before = {} => Cardinality(after) = 1
            /\ Cardinality(after \cap TagsOf(out.db, rid)) = 1

\* C5: on a create or an update with inline tags, each name of the payload
\* that the user already has a tag of is resolved to that tag, which is put on
\* the recipe, and no tag is created for it; any other name gets exactly one
\* new tag of the user, put on the recipe; a name the payload repeats ends as
\* one tag on the recipe.
C5_GetOrCreate ==
    \A u \in Users :
        /\ \A payload \in TagPayloads(CreatePayloads) :
              Resolved(DB, RecipeCreate(DB, u, payload), u, next_recipe_id, payload["tags"])
        /\ \A id \in OwnedBy(recipes, u) : \A payload \in TagPayloads(UpdatePayloads) :
              Resolved(DB, RecipeUpdate(DB, u, id, payload), u, id, payload["tags"])

IngredientPayloads(payloads) == {p \in payloads : "ingredients" \in DOMAIN p}
IngredientsNamedIn(db, u, names) ==
    {i \in OwnedBy(db.ingredients, u) : db.ingredients[i].name \in names}

\* C6: inline ingredients are resolved like tags. On create every named
\* ingredient exists for the user afterwards and is on the recipe; an update
\* that carries `ingredients` leaves the recipe with exactly the user's
\* ingredients of the listed names; one that does not leaves them alone.
C6_InlineIngredients ==
    \A u \in Users :
        /\ \A payload \in IngredientPayloads(CreatePayloads) :
              LET out == RecipeCreate(DB, u, payload)
              IN  \A n \in Range(payload["ingredients"]) :
                     IngredientsNamedIn(out.db, u, {n})
                        \cap IngredientsOf(out.db, next_recipe_id) # {}
        /\ \A id \in OwnedBy(recipes, u) : \A payload \in UpdatePayloads :
              LET out == RecipeUpdate(DB, u, id, payload)
              IN  IF "ingredients" \in DOMAIN payload
                  THEN IngredientsOf(out.db, id)
                          = IngredientsNamedIn(out.db, u, Range(payload["ingredients"]))
                  ELSE IngredientsOf(out.db, id) = IngredientsOf(DB, id)

Attached(db, kind) == {l[2] : l \in Links(db, kind)}
LinkCount(db, kind, i) == Cardinality({l \in Links(db, kind) : l[2] = i})

\* C7: with assigned_only=1 a tag or ingredient list is exactly the user's
\* items that sit on at least one recipe, each once however many recipes it
\* sits on; with assigned_only=0 or no parameter the user's items on no
\* recipe are listed as well.
C7_AssignedOnly ==
    \A kind \in Kinds, u \in Users :
        /\ \A out \in BaseList(DB, kind, u, <<Str(1)>>) :
              /\ Range(out.data) = OwnedBy(Items(DB, kind), u) \cap Attached(DB, kind)
              /\ NoDuplicates(out.data)
        /\ \A ap \in {<<>>, <<Str(0)>>} : \A out \in BaseList(DB, kind, u, ap) :
              OwnedBy(Items(DB, kind), u) \ Attached(DB, kind) \subseteq Range(out.data)

\* C7's case: a user has a tag on two recipes and a tag on none; the
\* assigned-only list is the first tag alone, once, and the plain list has both.
C7_Witness ==
    \E u \in Users : \E s \in OwnedBy(tags, u), t \in OwnedBy(tags, u) :
        /\ LinkCount(DB, "tag", s) = 2
        /\ LinkCount(DB, "tag", t) = 0
        /\ BaseList(DB, "tag", u, <<Str(1)>>) = {Outcome(DB, 200, <<s>>)}
        /\ \A out \in BaseList(DB, "tag", u, <<>>) : {s, t} \subseteq Range(out.data)

\* The names of the listed items, in the order listed.
NamesDescending(items, data) ==
    \A k \in 1..(Len(data) - 1) : items[data[k]].name >= items[data[k + 1]].name

\* C8: a tag or ingredient list holds items of the requesting user only, all
\* of them when no filter is given, in descending order of name.
C8_ItemsOwnOrdered ==
    \A kind \in Kinds, u \in Users :
        /\ \A ap \in AssignedParams : \A out \in BaseList(DB, kind, u, ap) :
              /\ Range(out.data) \subseteq OwnedBy(Items(DB, kind), u)
              /\ NamesDescending(Items(DB, kind), out.data)
        /\ \A out \in BaseList(DB, kind, u, <<>>) :
              Range(out.data) = OwnedBy(Items(DB, kind), u)

\* C8's case: a user has two tags of different names, created in ascending
\* order of name, and ingredients while another user has an ingredient too;
\* the tag list is the two tags, the higher name first, and the ingredient
\* list leaves the other user's ingredient out.
C8_Witness ==
    \E u \in Users : \E s \in OwnedBy(tags, u), t \in OwnedBy(tags, u) :
        /\ tags[s].name > tags[t].name
        /\ s > t
        /\ OwnedBy(ingredients, u) # {}
        /\ OthersOf(ingredients, u) # {}
        /\ BaseList(DB, "tag", u, <<>>) = {Outcome(DB, 200, <<s, t>>)}
        /\ \A out \in BaseList(DB, "ingredient", u, <<>>) :
              Range(out.data) = OwnedBy(ingredients, u)

Refused(out) == out = Outcome(DB, 401, <<>>)

\* C9: a request without authentication to a recipe, tag, ingredient or
\* profile endpoint is answered 401 with no record in the response, and the
\* database stays as it was.
C9_Unauthenticated401 ==
    /\ \A tp \in IdParams(TagIds), ip \in IngredientParams :
          Refused(RecipeList(DB, Anon, tp, ip))
    /\ \A payload \in CreatePayloads : Refused(RecipeCreate(DB, Anon, payload))
    /\ \A id \in RecipeIds :
          /\ Refused(RecipeRetrieve(DB, Anon, id))
          /\ Refused(RecipeDestroy(DB, Anon, id))
          /\ \A image \in Images : Refused(UploadImage(DB, Anon, id, image))
          /\ \A payload \in UpdatePayloads : Refused(RecipeUpdate(DB, Anon, id, payload))
    /\ \A kind \in Kinds :
          /\ \A ap \in AssignedParams : \A out \in BaseList(DB, kind, Anon, ap) : Refused(out)
          /\ \A id \in TagIds \cup IngredientIds :
                /\ Refused(BaseDestroy(DB, kind, Anon, id))
                /\ \A name \in Names : Refused(BaseUpdate(DB, kind, Anon, id, name))
    /\ Refused(MeRetrieve(DB, Anon))

\* C9's case: the database holds a recipe with a tag; the unauthenticated
\* list, delete and tag rename are each refused.
C9_Witness ==
    \E l \in recipe_tags :
        /\ RecipeList(DB, Anon, <<>>, <<>>).status = 401
        /\ RecipeDestroy(DB, Anon, l[1]).status = 401
        /\ BaseUpdate(DB, "tag", Anon, l[2], 2).status = 401

\* C10: no step of the API changes the owner of a recipe that stays in the
\* database (ids are never handed out twice, so a recipe keeps its owner from
\* its creation on).
C10_OwnerKept ==
    [][\A id \in DOMAIN recipes \cap DOMAIN recipes' :
          recipes'[id].user = recipes[id].user]_vars

\* C10's case: the owner of a recipe has sent a PATCH that changed it (the
\* title is one only a PATCH sets) and a PATCH naming another user as `user`
\* is answered 200 and leaves the owner.
C10_Witness ==
    \E id \in DOMAIN recipes : \E w \in Users \ {recipes[id].user} :
        LET out == RecipeUpdate(DB, recipes[id].user, id, [user |-> w])
        IN  /\ recipes[id].title = 2
            /\ out.status = 200
            /\ out.db.recipes[id].user = recipes[id].user

\* A payload whose scalar fields differ from one another.
Varied == [f \in ScalarFields |-> IF f \in {"title", "price"} THEN 1 ELSE 2]

\* C11: a create answered 201 stores exactly one new recipe, returned in the
\* response, whose owner is the requesting user and whose scalar fields are
\* the payload's, whatever `user` the payload names; the recipes there were
\* stay as they were.
C11_CreateStoresOwn ==
    \A u \in Users : \A payload \in CreatePayloads \cup Extras(Full(2)) \cup Extras(Varied) :
        LET out == RecipeCreate(DB, u, payload)
            new == next_recipe_id
        IN  out.status = 201 =>
               /\ DOMAIN out.db.recipes = DOMAIN recipes \cup {new}
               /\ new \notin DOMAIN recipes
               /\ out.data = <<new>>
               /\ \A id \in DOMAIN recipes : out.db.recipes[id] = recipes[id]
               /\ out.db.recipes[new].user = u
               /\ \A f \in ScalarFields : out.db.recipes[new][f] = payload[f]

\* C11's case: two users have each created a recipe, and a further create by
\* one of them with a payload naming the other as `user` is answered 201 and
\* stores one more recipe, owned by the requester.
C11_Witness ==
    \E u \in Users : \E w \in Users \ {u} :
        LET out == RecipeCreate(DB, u, With(Varied, "user", w))
        IN  /\ OwnedBy(recipes, u) # {}
            /\ OwnedBy(recipes, w) # {}
            /\ out.status = 201
            /\ out.db.recipes[next_recipe_id].user = u
            /\ out.db.recipes[next_recipe_id].title = 1
            /\ out.db.recipes[next_recipe_id].link = 2
            /\ Cardinality(DOMAIN out.db.recipes) = Cardinality(DOMAIN recipes) + 1

IdsDescending(data) == \A k \in 1..(Len(data) - 1) : data[k] > data[k + 1]

\* The ids (of one digit) that a parameter's value lists between its commas.
Listed(param) ==
    LET pieces == Range(Split(param[1]))
    IN  {i \in 0..(Len(Digits) - 1) : Str(i) \in pieces}

\* The user's recipes that the list's filters let through.
Matching(db, u, tagsParam, ingredientsParam) ==
    LET tag_ids == Listed(tagsParam)
        ingredient_ids == Listed(ingredientsParam)
    IN  {r \in OwnedBy(db.recipes, u) :
            /\ tagsParam # <<>> => TagsOf(db, r) \cap tag_ids # {}
            /\ ingredientsParam # <<>> => IngredientsOf(db, r) \cap ingredient_ids # {}}

\* C12: a recipe list with `tags` and/or `ingredients` holds exactly the
\* requesting user's recipes that carry at least one listed tag and (when
\* both are given) at least one listed ingredient, each once, in descending
\* order of id.
C12_FilteredList ==
    \A u \in Users : \A tp \in IdParams(TagIds), ip \in IngredientParams :
        LET out == RecipeList(DB, u, tp, ip)
        IN  /\ out.status = 200
            /\ Range(out.data) = Matching(DB, u, tp, ip)
            /\ NoDuplicates(out.data)
            /\ IdsDescending(out.data)

\* C12's case: two recipes of one user each carry both listed tags and the
\* listed ingredient; the list is the two recipes, the higher id first, and a
\* list by ingredients neither carries is empty.
C12_Witness ==
    \E u \in Users : \E r \in OwnedBy(recipes, u), q \in OwnedBy(recipes, u) :
        /\ r > q
        /\ TagsOf(DB, r) = {1, 2}
        /\ TagsOf(DB, q) = {1, 2}
        /\ 1 \in IngredientsOf(DB, r) \cap IngredientsOf(DB, q)
        /\ RecipeList(DB, u, <<JoinIds(<<1, 2>>)>>, <<Str(1)>>).data = <<r, q>>
        /\ RecipeList(DB, u, <<JoinIds(<<1, 2>>)>>, <<JoinIds(<<2, 3>>)>>).data = <<>>

\* C13: no user owns two tags, or two ingredients, of one name.
C13_NamesUnique ==
    \A kind \in Kinds, u \in Users :
        \A s \in OwnedBy(Items(DB, kind), u), t \in OwnedBy(Items(DB, kind), u) :
            Items(DB, kind)[s].name = Items(DB, kind)[t].name => s = t

\* Whether place i of the email lies in its domain part: after an at sign,
\* with no at sign at or after it.
InDomain(email, i) ==
    /\ \E j \in 1..(i - 1) : email[j] = "@"
    /\ \A j \in i..Len(email) : email[j] # "@"

\* The email with its domain part lower-cased.
DomainLowered(email) ==
    [i \in 1..Len(email) |-> IF InDomain(email, i) THEN Lower(email[i]) ELSE email[i]]

\* C14: create_user stores the email with its domain part lower-cased and its
\* local part as given (it succeeds for any non-empty email no user has), and
\* with an empty email it raises ValueError and stores nothing.
C14_EmailNormalised ==
    \A email \in Emails, password \in Passwords, name \in Names :
        LET r == CreateUser(DB, email, password, name)
        IN  /\ email = <<>> => r.raised = "ValueError"
            /\ r.raised # "" => r.db = DB
            /\ r.raised = "" <=>
                  email # <<>> /\ UsersWithEmail(DB, DomainLowered(email)) = {}
            /\ r.raised = "" =>
                  /\ DOMAIN r.db.users = DOMAIN users \cup {next_user_id}
                  /\ r.db.users[next_user_id].email = DomainLowered(email)
                  /\ \A u \in DOMAIN users : r.db.users[u] = users[u]

\* C14's case: a user created with an upper-case local part is stored, with a
\* lower-case domain; creating "a@A" now stores "a@a", and creating a user
\* with the empty email raises and stores nothing.
C14_Witness ==
    LET r == CreateUser(DB, <<"a", "@", "A">>, <<>>, 1)
        e == CreateUser(DB, <<>>, <<>>, 1)
    IN  /\ UsersWithEmail(DB, <<"A", "@", "a">>) # {}
        /\ r.raised = ""
        /\ r.db.users[next_user_id].email = <<"a", "@", "a">>
        /\ e.raised = "ValueError"
        /\ e.db = DB

\* Registration payloads with any email, well-formed or not.
AnyUserPayloads == [email : Emails, password : Passwords, name : Names]

\* C15: a registration whose password is shorter than the minimum is answered
\* 400, one whose email a user already has is not answered 201, and neither
\* (nor any other refused registration) changes the database; the response
\* to a successful registration has no password in it.
C15_RegistrationRejects ==
    \A payload \in AnyUserPayloads :
        LET out == UserCreate(DB, payload)
        IN  /\ Len(payload.password) < MinPasswordLength =>
                  out.status = 400 /\ out.db = DB
            /\ UsersWithEmail(DB, payload.email) # {} =>
                  out.status # 201 /\ out.db = DB
            /\ out.status # 201 => out.db.users = users
            /\ out.status = 201 =>
                  /\ "password" \notin DOMAIN out.data
                  /\ Cardinality(DOMAIN out.db.users) = Cardinality(DOMAIN users) + 1

\* C15's case: a user is registered; registering that email again is answered
\* 400, so is a new email with a short password, and a new email with a long
\* enough password is answered 201 without the password.
C15_Witness ==
    \E u \in DOMAIN users : \E email \in SentEmails \ {<<>>, users[u].email} :
        LET long == Repeat("a", MinPasswordLength)
            short == Repeat("a", MinPasswordLength - 1)
            good == UserCreate(DB, [email |-> email, password |-> long, name |-> 1])
        IN  /\ UserCreate(DB, [email |-> users[u].email, password |-> long, name |-> 1])
                  = Outcome(DB, 400, <<>>)
            /\ UserCreate(DB, [email |-> email, password |-> short, name |-> 1])
                  = Outcome(DB, 400, <<>>)
            /\ good.status = 201
            /\ DOMAIN good.data = {"email", "name"}

\* Whether the email is a user's and the password is that user's.
ValidCredentials(db, email, password) ==
    \E u \in DOMAIN db.users :
        /\ db.users[u].email = email
        /\ CheckPassword(password, db.users[u].password)

\* C16: the token endpoint answers 200 with a token only for the email of a
\* user together with that user's password (and does so for every such pair
\* with a non-blank password); a wrong password, a blank password or an
\* unknown email is answered 400 without a token and changes nothing.
C16_TokenOnlyForCredentials ==
    \A email \in Emails, password \in Passwords :
        LET out == TokenCreate(DB, email, password)
            valid == ValidCredentials(DB, email, password)
        IN  /\ out.status = 200 => valid /\ "token" \in DOMAIN out.data
            /\ valid /\ password # <<>> => out.status = 200
            /\ ~valid \/ password = <<>> =>
                  /\ out.status = 400
                  /\ "token" \notin DOMAIN out.data
                  /\ out.db = DB

\* C16's case: a user holds a token; that user's email and password get the
\* token, and the other spelling of the password, the blank password and an
\* email of no user are each answered 400.
C16_Witness ==
    \E u \in tokens : \E email \in SentEmails \ {<<>>} :
        LET right == Repeat("a", MinPasswordLength)
            wrong == Repeat("A", MinPasswordLength)
        IN  /\ UsersWithEmail(DB, email) = {}
            /\ TokenCreate(DB, users[u].email, right) = Outcome(DB, 200, [token |-> u])
            /\ TokenCreate(DB, users[u].email, wrong).status = 400
            /\ TokenCreate(DB, users[u].email, <<>>).status = 400
            /\ TokenCreate(DB, email, right).status = 400

\* C17: for an authenticated user, GET /user/me is answered with that user's
\* name and email; a PATCH answered 200 has set the name and the password the
\* payload carries (the new password gets a token, no other password does),
\* leaves the user's email, every other user and the rest of the database;
\* a refused PATCH changes nothing; POST is answered 405 and changes nothing.
C17_ProfileOwnOnly ==
    \A u \in DOMAIN users :
        /\ MeRetrieve(DB, u)
              = Outcome(DB, 200, [name |-> users[u].name, email |-> users[u].email])
        /\ MePost(DB, u) = Outcome(DB, 405, <<>>)
        /\ \A payload \in MePayloads :
              LET out == MeUpdate(DB, u, payload)
              IN  /\ out.status # 200 => out.db = DB
                  /\ out.status = 200 =>
                        /\ "name" \in DOMAIN payload => out.db.users[u].name = payload.name
                        /\ "password" \in DOMAIN payload =>
                              \A password \in Passwords :
                                  TokenCreate(out.db, users[u].email, password).status
                                     = IF password = payload.password THEN 200 ELSE 400
                        /\ out.db.users[u].email = users[u].email
                        /\ \A w \in DOMAIN users \ {u} : out.db.users[w] = users[w]
                        /\ [out.db EXCEPT !.users = users] = DB

\* C17's case: of two users, one whose password is not yet the new one
\* patches name, password and email; the answer is 200, the new password
\* gets a token where it did not before, and the email is the old one.
C17_Witness ==
    \E u \in DOMAIN users : \E w \in DOMAIN users \ {u} :
        LET new == Repeat("A", MinPasswordLength)
            out == MeUpdate(DB, u, [email |-> <<"A", "@", "A">>, name |-> 2, password |-> new])
        IN  /\ users[u].name = 1
            /\ users[u].email # <<"A", "@", "A">>
            /\ TokenCreate(DB, users[u].email, new).status = 400
            /\ out.status = 200
            /\ out.db.users[u].name = 2
            /\ out.db.users[u].email = users[u].email
            /\ TokenCreate(out.db, users[u].email, new).status = 200
            /\ out.db.users[w] = users[w]
            /\ MePost(DB, u).status = 405

\* C18: an upload-image request on a recipe of the requesting user is answered
\* 200 and stores the image when the file is an image (the other fields
\* stay), and is answered 400 and changes nothing when it is not.
C18_UploadImage ==
    \A u \in Users : \A id \in OwnedBy(recipes, u) : \A image \in Images :
        LET out == UploadImage(DB, u, id, image)
        IN  IF IsImage(image)
            THEN /\ out.status = 200
                 /\ out.db = [DB EXCEPT !.recipes[id].image = image]
            ELSE out = Outcome(DB, 400, <<>>)

\* C19: once two requests of one user whose payloads both name a tag are
\* answered, the user has exactly one tag of that name and it is on both
\* requests' recipes, however the requests' statements interleaved.
C19_ConcurrentGetOrCreate ==
    \A v \in Workers : \A w \in Workers \ {v} :
        /\ requests[v].pc = "done"
        /\ requests[w].pc = "done"
        /\ requests[v].user = requests[w].user
        => \A n \in Range(requests[v].tags) \cap Range(requests[w].tags) :
              LET named == TagsNamed(DB, requests[v].user, n)
              IN  /\ Cardinality(named) = 1
                  /\ named \subseteq TagsOf(DB, requests[v].rid)
                  /\ named \subseteq TagsOf(DB, requests[w].rid)

Failed(rs) == {i \in DOMAIN rs : rs[i] # "ok"}
Succeeded(rs) == {i \in DOMAIN rs : rs[i] = "ok"}

\* C20: wait_for_db writes Database is available! (and returns) only after a
\* check that succeeded, never while every check so far has failed; a check
\* that failed with an operational error is followed by the warning, one
\* second of sleep and another check; and once the database is available for
\* good, the command returns.
C20_WaitForDb ==
    /\ []("Database is available!" \in Range(stdout) \/ wpc = "done" =>
            /\ Succeeded(results) = {Len(results)}
            /\ results # <<>>)
    /\ [](wpc \in {"report", "done"} => Succeeded(results) # {})
    /\ [][wpc = "check" /\ Failed(results') # Failed(results) =>
            /\ wpc' = "sleep"
            /\ stdout' = Append(stdout, "Database not available, waiting 1 second...")]_vars
    /\ [](wpc \in {"while", "check"} /\ Succeeded(results) = {} =>
            slept = Cardinality(Failed(results)))
    /\ (wpc = "sleep") ~> (wpc = "check")
    /\ <>[]db_available => <>(wpc = "done")

\* C20's case: the command has returned after two checks that failed, one
\* with each operational error, and a third that succeeded; it wrote the
\* warning twice, slept two seconds and reported last.
C20_Witness ==
    /\ wpc = "done"
    /\ results = <<"OperationalError", "Psycopg2OperationalError", "ok">>
    /\ stdout = <<"Waiting for database...",
                  "Database not available, waiting 1 second...",
                  "Database not available, waiting 1 second...",
                  "Database is available!">>
    /\ slept = 2

\* C21: every tag linked to a recipe is owned by that recipe's owner, also
\* while another user has a tag of the same name.
C21_TagOwnerIsRecipeOwner ==
    \A l \in recipe_tags :
        /\ l[1] \in DOMAIN recipes
        /\ l[2] \in DOMAIN tags
        /\ tags[l[2]].user = recipes[l[1]].user

\* C21's case: a recipe carries a tag of its owner while another user has a
\* tag of the same name, which is on a recipe of that other user.
C21_Witness ==
    \E l \in recipe_tags : \E k \in recipe_tags :
        /\ tags[l[2]].name = tags[k[2]].name
        /\ tags[l[2]].user # tags[k[2]].user
        /\ recipes[l[1]].user = tags[l[2]].user
        /\ recipes[k[1]].user = tags[k[2]].user

\* C22: an update of recipe R whose payload carries `tags` (a list or the
\* empty list) deletes no tag record, changes no tag record, and leaves the
\* tags of every other recipe as they were.
C22_ReplaceKeepsTags ==
    \A u \in Users : \A id \in OwnedBy(recipes, u) : \A payload \in TagPayloads(UpdatePayloads) :
        LET out == RecipeUpdate(DB, u, id, payload)
        IN  /\ DOMAIN tags \subseteq DOMAIN out.db.tags
            /\ \A t \in DOMAIN tags : out.db.tags[t] = tags[t]
            /\ \A r \in DOMAIN recipes \ {id} : TagsOf(out.db, r) = TagsOf(DB, r)

\* C22's case: two recipes share a tag; clearing the tags of one, and
\* replacing them by a name the user has no tag of, both succeed, take the
\* tag off that recipe and leave it in the table and on the other recipe.
C22_Witness ==
    \E id \in DOMAIN recipes : \E r \in DOMAIN recipes \ {id} : \E t \in DOMAIN tags :
        \E n \in Names :
            LET u == recipes[id].user
                cleared == RecipeUpdate(DB, u, id, [tags |-> <<>>])
                replaced == RecipeUpdate(DB, u, id, With(Full(1), "tags", <<n>>))
            IN  /\ {<<id, t>>, <<r, t>>} \subseteq recipe_tags
                /\ TagsNamed(DB, u, n) = {}
                /\ cleared.status = 200
                /\ TagsOf(cleared.db, id) = {}
                /\ t \in DOMAIN cleared.db.tags
                /\ t \in TagsOf(cleared.db, r)
                /\ replaced.status = 200
                /\ t \notin TagsOf(replaced.db, id)
                /\ DOMAIN replaced.db.tags = DOMAIN tags \cup {next_tag_id}
                /\ t \in TagsOf(replaced.db, r)

\* C23: a recipe list whose `tags` or `ingredients` value is no
\* comma-separated list of integers, and a tag or ingredient list whose
\* `assigned_only` value is no integer, are answered 400 and change nothing;
\* an empty `tags` / `ingredients` value lists what the absent parameter lists.
C23_MalformedParams ==
    \A u \in Users :
        /\ \A bad \in MalformedIdParams :
           \A other \in IdParams(TagIds) \cup IngredientParams \cup {EmptyParam} :
              /\ RecipeList(DB, u, bad, other).status = 400
              /\ RecipeList(DB, u, other, bad).status = 400
              /\ RecipeList(DB, u, bad, other).db = DB
              /\ RecipeList(DB, u, other, bad).db = DB
        /\ \A kind \in Kinds : \A bad \in MalformedAssignedParams :
              \A out \in BaseList(DB, kind, u, bad) : out.status = 400 /\ out.db = DB
        /\ \A other \in IdParams(TagIds) \cup IngredientParams \cup {EmptyParam} :
              /\ RecipeList(DB, u, EmptyParam, other) = RecipeList(DB, u, <<>>, other)
              /\ RecipeList(DB, u, other, EmptyParam) = RecipeList(DB, u, other, <<>>)
====
